---- MODULE Spec2Model ----
(***************************************************************************)
(* Model of get-playlists.py: the stream health check (StreamHealthCheck), *)
(* the three playlist encoders and the main() driver that ties them        *)
(* together.                                                               *)
(*                                                                         *)
(* Playlist documents are modelled as the strings the code builds.  A      *)
(* Python dict is modelled as the sequence of its <<key, value>> items in  *)
(* insertion order, keys unique.  The detail element of a probe result     *)
(* (response.status or str(e)) is kept in its printed form.                *)
(***************************************************************************)
EXTENDS Integers, Sequences, FiniteSets, TLC

\* ------------------------------------------------------------------ bounds
MaxMounts == 3

\* ------------------------------------------------------------- input data
StationNames == <<"Alpha", "Beta">>
URLs == {"http://a/1", "http://a/2"}
Formats == {"mp3", "aac"}
\* a mount's bitrate: the key is absent, its value is null, or it is 128
Bitrates == {"absent", "null", "128"}

SeqsUpTo(S, n) == UNION {[1..k -> S] : k \in 0..n}

MountSet(bitrates) ==
    {[url |-> u, format |-> "mp3", bitrate |-> b] : u \in URLs, b \in bitrates}
    \cup {[url |-> u, format |-> "aac", bitrate |-> "128"] : u \in URLs}

\* The station lists the API may return: up to Len(StationNames) stations,
\* station j named StationNames[j], with at most MaxMounts mounts in all.
\* A list is a sequence f of mounts cut into consecutive stations at c.
Cuts(k, n) ==
    {c \in [0..k -> 0..n] :
        /\ c[0] = 0
        /\ c[k] = n
        /\ \A j \in 1..k : c[j - 1] <= c[j]}

Split(f, k, c) ==
    [j \in 1..k |-> [name |-> StationNames[j],
                     mounts |-> SubSeq(f, c[j - 1] + 1, c[j])]]

StationDataSet(bitrates) ==
    UNION { {Split(f, k, c) : c \in Cuts(k, Len(f))} :
            f \in SeqsUpTo(MountSet(bitrates), MaxMounts),
            k \in 0..Len(StationNames) }

\* ------------------------------------------------------------ Python dict
DictKeys(d) == {d[j][1] : j \in 1..Len(d)}

\* d.get(k, default)
DictGet(d, k, default) ==
    IF k \in DictKeys(d)
    THEN d[CHOOSE j \in 1..Len(d) : d[j][1] = k][2]
    ELSE default

\* d[k] = v: an existing key keeps its place, a new key is appended
DictSet(d, k, v) ==
    IF k \in DictKeys(d)
    THEN [j \in 1..Len(d) |-> IF d[j][1] = k THEN <<k, v>> ELSE d[j]]
    ELSE Append(d, <<k, v>>)

\* ------------------------------------------------------- nested iteration
\* "for station in station_data: for mount in station['mounts']" as the
\* sequence of (station name, mount) pairs it visits
RECURSIVE StationMounts(_)
StationMounts(sd) ==
    IF sd = <<>> THEN <<>>
    ELSE [j \in 1..Len(Head(sd).mounts) |->
             [name |-> Head(sd).name, mount |-> Head(sd).mounts[j]]]
         \o StationMounts(Tail(sd))

\* the encoders' filter: an mp3 mount whose health entry has a true status
NotChecked == <<FALSE, "Not checked">>
\* mutant: a mount without a health entry counts as healthy
health_status_default_healthy(hr, mount) ==
    DictGet(hr, mount.url, <<TRUE, "Not checked">>)[1]

health_status(hr, mount) == DictGet(hr, mount.url, NotChecked)[1]
Emitted(hr, e) == e.mount.format = "mp3" /\ health_status(hr, e.mount)

\* str() of a bitrate value
PyStr(b) == IF b = "null" THEN "None" ELSE b

\* ---------------------------------------------------------------- encoders
\* A document is the sequence of its lines, each ended by "\n" in the code.

\* f" - {mount['bitrate']}kbps" if 'bitrate' in mount else ""
bitrate_info(mount) ==
    IF mount.bitrate # "absent" THEN " - " \o PyStr(mount.bitrate) \o "kbps" ELSE ""

RECURSIVE M3ULoop(_, _, _)
M3ULoop(ms, hr, acc) ==
    IF ms = <<>> THEN acc
    ELSE LET e == Head(ms) IN
         IF Emitted(hr, e)
         THEN M3ULoop(Tail(ms), hr,
                  acc \o << "#EXTINF:-1," \o e.name \o bitrate_info(e.mount),
                            e.mount.url >>)
         ELSE M3ULoop(Tail(ms), hr, acc)

create_m3u_playlist(sd, hr) == M3ULoop(StationMounts(sd), hr, <<"#EXTM3U">>)

RECURSIVE PLSLoop(_, _, _, _)
PLSLoop(ms, hr, acc, valid_entries) ==
    IF ms = <<>>
    THEN acc \o << "NumberOfEntries=" \o ToString(valid_entries), "Version=2" >>
    ELSE LET e == Head(ms)
             n == valid_entries + 1
         IN
         IF Emitted(hr, e)
         THEN PLSLoop(Tail(ms), hr,
                  acc \o << "File" \o ToString(n) \o "=" \o e.mount.url,
                            "Title" \o ToString(n) \o "=" \o e.name,
                            "Length" \o ToString(n) \o "=-1" >>,
                  n)
         ELSE PLSLoop(Tail(ms), hr, acc, valid_entries)

\* mutant: entries numbered by the position of the mp3 mount, healthy or not
RECURSIVE PLSLoopByPosition(_, _, _, _, _)
PLSLoopByPosition(ms, hr, acc, position, valid_entries) ==
    IF ms = <<>>
    THEN acc \o << "NumberOfEntries=" \o ToString(valid_entries), "Version=2" >>
    ELSE LET e == Head(ms)
             n == position + 1
         IN
         IF e.mount.format # "mp3"
         THEN PLSLoopByPosition(Tail(ms), hr, acc, position, valid_entries)
         ELSE IF health_status(hr, e.mount)
         THEN PLSLoopByPosition(Tail(ms), hr,
                  acc \o << "File" \o ToString(n) \o "=" \o e.mount.url,
                            "Title" \o ToString(n) \o "=" \o e.name,
                            "Length" \o ToString(n) \o "=-1" >>,
                  n, valid_entries + 1)
         ELSE PLSLoopByPosition(Tail(ms), hr, acc, n, valid_entries)

create_pls_by_position(sd, hr) ==
    PLSLoopByPosition(StationMounts(sd), hr, <<"[playlist]">>, 0, 0)

create_pls_playlist(sd, hr) == PLSLoop(StationMounts(sd), hr, <<"[playlist]">>, 0)

\* The trackList of the XSPF document: one track per emitted mount, with the
\* elements that come from the modelled fields (location, title, creator).
RECURSIVE XSPFLoop(_, _, _)
XSPFLoop(ms, hr, acc) ==
    IF ms = <<>> THEN acc
    ELSE LET e == Head(ms) IN
         IF Emitted(hr, e)
         THEN XSPFLoop(Tail(ms), hr,
                  Append(acc, [location |-> e.mount.url, title |-> e.name,
                               creator |-> "The Indie Beat Radio"]))
         ELSE XSPFLoop(Tail(ms), hr, acc)

\* mutant: tracks emitted while iterating the health map, not the stations
RECURSIVE XSPFByMapLoop(_, _, _)
XSPFByMapLoop(items, ms, acc) ==
    IF items = <<>> THEN acc
    ELSE LET url == Head(items)[1]
             here == SelectSeq(ms, LAMBDA e : e.mount.url = url)
         IN XSPFByMapLoop(Tail(items), ms,
                          XSPFLoop(here, <<Head(items)>>, acc))

create_xspf_in_map_order(sd, hr) == XSPFByMapLoop(hr, StationMounts(sd), <<>>)

create_xspf_playlist(sd, hr) == XSPFLoop(StationMounts(sd), hr, <<>>)

\* ------------------------------------------------------- StreamHealthCheck
\* What the network does to one GET: a response with a status whose first
\* chunk is read, or an exception e raised inside the try block, with its
\* str(e) (asyncio.TimeoutError() prints as the empty string).
NoNet == [kind |-> "none", status |-> 0, msg |-> ""]
NetBehaviours ==
    { [kind |-> "response", status |-> 200, msg |-> ""],
      [kind |-> "response", status |-> 404, msg |-> ""],
      [kind |-> "exception", status |-> 0, msg |-> "Cannot connect to host"],
      [kind |-> "exception", status |-> 0, msg |-> ""] }

\* check_stream(url) under network behaviour net: (url, status, detail)
check_stream(url, net) ==
    IF net.kind = "response"
    THEN <<url, TRUE, ToString(net.status)>>
    ELSE <<url, FALSE, net.msg>>

\* mutant: only the results of healthy probes are stored
StoreResultHealthyOnly(res, result) ==
    IF result[2] THEN DictSet(res, result[1], <<result[2], result[3]>>) ELSE res

\* results[result[0]] = (result[1], result[2])
StoreResult(res, result) == DictSet(res, result[1], <<result[2], result[3]>>)

\* ------------------------------------------------------------------- main
VARIABLES pc, args, station_data, stream_urls, i, inflight, results,
          health_results, calls, stores, last_net,
          xspf_content, m3u_content, pls_content,
          attempted, output_files, exit_code

vars == <<pc, args, station_data, stream_urls, i, inflight, results,
          health_results, calls, stores, last_net,
          xspf_content, m3u_content, pls_content,
          attempted, output_files, exit_code>>

ArgSet == [xspf : BOOLEAN, m3u : BOOLEAN, pls : BOOLEAN,
           no_health_check : BOOLEAN, list_streams : BOOLEAN]

Requested(a) == {f \in {"xspf", "m3u", "pls"} : a[f]}

\* [mount['url'] for station in station_data for mount in station['mounts']
\*  if mount['format'] == 'mp3']
ExtractUrls(sd) ==
    LET mp3 == SelectSeq(StationMounts(sd), LAMBDA e : e.mount.format = "mp3")
    IN [j \in 1..Len(mp3) |-> mp3[j].mount.url]

\* {url: (True, "Health check skipped") for url in stream_urls}
RECURSIVE SkippedLoop(_, _)
SkippedLoop(urls, acc) ==
    IF urls = <<>> THEN acc
    ELSE SkippedLoop(Tail(urls),
                     DictSet(acc, Head(urls), <<TRUE, "Health check skipped">>))

\* mutant: the map stays as it was initialised, empty
SkippedResultsEmpty(urls) == SubSeq(urls, 1, 0)

SkippedResults(urls) == SkippedLoop(urls, <<>>)

Blank ==
    /\ station_data = <<>>
    /\ stream_urls = <<>>
    /\ i = 0
    /\ inflight = {}
    /\ results = <<>>
    /\ health_results = <<>>
    /\ calls = [u \in URLs |-> 0]
    /\ stores = [u \in URLs |-> 0]
    /\ last_net = [u \in URLs |-> NoNet]
    /\ xspf_content = <<>>
    /\ m3u_content = <<>>
    /\ pls_content = <<>>
    /\ attempted = {}
    /\ output_files = <<>>
    /\ exit_code = -1

Init ==
    /\ pc = "args"
    /\ args \in ArgSet
    /\ Blank

\* if not any([args.xspf, args.m3u, args.pls]): enable all output formats
DefaultFormats ==
    /\ pc = "args"
    /\ args' = IF Requested(args) = {}
               THEN [args EXCEPT !.xspf = TRUE, !.m3u = TRUE, !.pls = TRUE]
               ELSE args
    /\ pc' = "fetch"
    /\ UNCHANGED <<station_data, stream_urls, i, inflight, results,
                   health_results, calls, stores, last_net, xspf_content,
                   m3u_content, pls_content, attempted, output_files, exit_code>>

\* station_data = fetch_station_data(...) returns the station list
FetchStations ==
    /\ pc = "fetch"
    /\ station_data' \in StationDataSet({"128"})
    /\ pc' = "extract"
    /\ UNCHANGED <<args, stream_urls, i, inflight, results,
                   health_results, calls, stores, last_net, xspf_content,
                   m3u_content, pls_content, attempted, output_files, exit_code>>

\* fetch_station_data raises requests.RequestException: return 1
FetchFails ==
    /\ pc = "fetch"
    /\ exit_code' = 1
    /\ pc' = "done"
    /\ UNCHANGED <<args, station_data, stream_urls, i, inflight, results,
                   health_results, calls, stores, last_net, xspf_content,
                   m3u_content, pls_content, attempted, output_files>>

GetStreamUrls ==
    /\ pc = "extract"
    /\ stream_urls' = ExtractUrls(station_data)
    /\ pc' = "branch"
    /\ UNCHANGED <<args, station_data, i, inflight, results,
                   health_results, calls, stores, last_net, xspf_content,
                   m3u_content, pls_content, attempted, output_files, exit_code>>

\* if args.list_streams: print the URLs and return 0
ListStreams ==
    /\ pc = "branch"
    /\ args.list_streams
    /\ exit_code' = 0
    /\ pc' = "done"
    /\ UNCHANGED <<args, station_data, stream_urls, i, inflight, results,
                   health_results, calls, stores, last_net, xspf_content,
                   m3u_content, pls_content, attempted, output_files>>

\* else branch of "if not args.no_health_check"
SkipHealthChecks ==
    /\ pc = "branch"
    /\ ~args.list_streams
    /\ args.no_health_check
    /\ health_results' = SkippedResults(stream_urls)
    /\ pc' = "xspf"
    /\ UNCHANGED <<args, station_data, stream_urls, i, inflight, results,
                   calls, stores, last_net, xspf_content,
                   m3u_content, pls_content, attempted, output_files, exit_code>>

\* health_checker.check_streams(stream_urls, ...) is entered: results = {}
EnterCheckStreams ==
    /\ pc = "branch"
    /\ ~args.list_streams
    /\ ~args.no_health_check
    /\ results' = <<>>
    /\ i' = 1
    /\ pc' = "loop"
    /\ UNCHANGED <<args, station_data, stream_urls, inflight,
                   health_results, calls, stores, last_net, xspf_content,
                   m3u_content, pls_content, attempted, output_files, exit_code>>

\* for url in urls: ... self.check_stream(url) is called and awaited
CallCheckStream ==
    /\ pc = "loop"
    /\ i <= Len(stream_urls)
    /\ inflight' = inflight \cup {i}
    /\ calls' = [calls EXCEPT ![stream_urls[i]] = @ + 1]
    /\ pc' = "await"
    /\ UNCHANGED <<args, station_data, stream_urls, i, results,
                   health_results, stores, last_net, xspf_content,
                   m3u_content, pls_content, attempted, output_files, exit_code>>

\* the awaited check_stream returns; its result is stored and the loop
\* advances.  check_stream catches every Exception itself, so the handler
\* around the await (results[url] = (False, str(e))) is never entered.
CheckStreamReturns ==
    /\ pc = "await"
    /\ \E net \in NetBehaviours :
         LET url == stream_urls[i]
             result == check_stream(url, net)
         IN /\ results' = StoreResult(results, result)
            /\ stores' = [stores EXCEPT ![result[1]] = @ + 1]
            /\ last_net' = [last_net EXCEPT ![url] = net]
    /\ inflight' = inflight \ {i}
    /\ i' = i + 1
    /\ pc' = "loop"
    /\ UNCHANGED <<args, station_data, stream_urls,
                   health_results, calls, xspf_content,
                   m3u_content, pls_content, attempted, output_files, exit_code>>

\* the loop is exhausted: return results; main binds health_results
CheckStreamsReturns ==
    /\ pc = "loop"
    /\ i > Len(stream_urls)
    /\ health_results' = results
    /\ pc' = "xspf"
    /\ UNCHANGED <<args, station_data, stream_urls, i, inflight, results,
                   calls, stores, last_net, xspf_content,
                   m3u_content, pls_content, attempted, output_files, exit_code>>

\* A requested format is encoded and saved, in the order xspf, m3u, pls
\* (the three "if args.<fmt>:" blocks of the one try block).
Saved(f, next) ==
    /\ pc = f
    /\ args[f]
    /\ attempted' = attempted \cup {f}
    /\ output_files' = Append(output_files, f)
    /\ pc' = next
    /\ UNCHANGED <<args, station_data, stream_urls, i, inflight, results,
                   health_results, calls, stores, last_net, exit_code>>

\* save_playlist raises (open or write fails): the exception leaves the try
\* block, "except Exception" prints the error and main returns 1
Failed(f) ==
    /\ pc = f
    /\ args[f]
    /\ attempted' = attempted \cup {f}
    /\ exit_code' = 1
    /\ pc' = "done"
    /\ UNCHANGED <<args, station_data, stream_urls, i, inflight, results,
                   health_results, calls, stores, last_net, output_files>>

\* the format was not requested
Skipped(f, next) ==
    /\ pc = f
    /\ ~args[f]
    /\ pc' = next
    /\ UNCHANGED <<args, station_data, stream_urls, i, inflight, results,
                   health_results, calls, stores, last_net, xspf_content,
                   m3u_content, pls_content, attempted, output_files, exit_code>>

SaveXspf ==
    /\ Saved("xspf", "m3u")
    /\ xspf_content' = create_xspf_playlist(station_data, health_results)
    /\ UNCHANGED <<m3u_content, pls_content>>

XspfFails ==
    /\ Failed("xspf")
    /\ xspf_content' = create_xspf_playlist(station_data, health_results)
    /\ UNCHANGED <<m3u_content, pls_content>>

SkipXspf == Skipped("xspf", "m3u")

SaveM3u ==
    /\ Saved("m3u", "pls")
    /\ m3u_content' = create_m3u_playlist(station_data, health_results)
    /\ UNCHANGED <<xspf_content, pls_content>>

M3uFails ==
    /\ Failed("m3u")
    /\ m3u_content' = create_m3u_playlist(station_data, health_results)
    /\ UNCHANGED <<xspf_content, pls_content>>

SkipM3u == Skipped("m3u", "pls")

SavePls ==
    /\ Saved("pls", "summary")
    /\ pls_content' = create_pls_playlist(station_data, health_results)
    /\ UNCHANGED <<xspf_content, m3u_content>>

PlsFails ==
    /\ Failed("pls")
    /\ pls_content' = create_pls_playlist(station_data, health_results)
    /\ UNCHANGED <<xspf_content, m3u_content>>

SkipPls == Skipped("pls", "summary")

\* the summary is printed and main returns 0
Summary ==
    /\ pc = "summary"
    /\ exit_code' = 0
    /\ pc' = "done"
    /\ UNCHANGED <<args, station_data, stream_urls, i, inflight, results,
                   health_results, calls, stores, last_net, xspf_content,
                   m3u_content, pls_content, attempted, output_files>>

Next ==
    \/ DefaultFormats
    \/ FetchStations
    \/ FetchFails
    \/ GetStreamUrls
    \/ ListStreams
    \/ SkipHealthChecks
    \/ EnterCheckStreams
    \/ CallCheckStream
    \/ CheckStreamReturns
    \/ CheckStreamsReturns
    \/ SaveXspf
    \/ XspfFails
    \/ SkipXspf
    \/ SaveM3u
    \/ M3uFails
    \/ SkipM3u
    \/ SavePls
    \/ PlsFails
    \/ SkipPls
    \/ Summary

Spec == Init /\ [][Next]_vars

\* ------------------------------------------------- the encoders on their own
\* Every station list and every health map, including maps that lack an
\* entry for a mount's URL; each encoder is applied to the pair.
\* (the encoders read only the status element of a value)
HealthValues == { <<TRUE, "200">>, <<FALSE, "Cannot connect to host">> }

HealthMaps ==
    {d \in SeqsUpTo(URLs \X HealthValues, Cardinality(URLs)) :
        Cardinality(DictKeys(d)) = Len(d)}

EncInit ==
    /\ pc = "enc"
    /\ args = [xspf |-> TRUE, m3u |-> TRUE, pls |-> TRUE,
               no_health_check |-> TRUE, list_streams |-> FALSE]
    /\ station_data \in StationDataSet(Bitrates)
    /\ health_results \in HealthMaps
    /\ stream_urls = <<>>
    /\ i = 0
    /\ inflight = {}
    /\ results = <<>>
    /\ calls = [u \in URLs |-> 0]
    /\ stores = [u \in URLs |-> 0]
    /\ last_net = [u \in URLs |-> NoNet]
    /\ xspf_content = <<>>
    /\ m3u_content = <<>>
    /\ pls_content = <<>>
    /\ attempted = {}
    /\ output_files = <<>>
    /\ exit_code = -1

Encoded(f) ==
    /\ pc = "enc"
    /\ attempted' = {f}
    /\ pc' = "encoded"
    /\ UNCHANGED <<args, station_data, stream_urls, i, inflight, results,
                   health_results, calls, stores, last_net, output_files,
                   exit_code>>

EncodeXspf ==
    /\ Encoded("xspf")
    /\ xspf_content' = create_xspf_playlist(station_data, health_results)
    /\ UNCHANGED <<m3u_content, pls_content>>

EncodeM3u ==
    /\ Encoded("m3u")
    /\ m3u_content' = create_m3u_playlist(station_data, health_results)
    /\ UNCHANGED <<xspf_content, pls_content>>

EncodePls ==
    /\ Encoded("pls")
    /\ pls_content' = create_pls_playlist(station_data, health_results)
    /\ UNCHANGED <<xspf_content, m3u_content>>

EncNext ==
    \/ EncodeXspf
    \/ EncodeM3u
    \/ EncodePls

EncSpec == EncInit /\ [][EncNext]_vars

\* ------------------------------------------------------------------ claims
Range(q) == {q[j] : j \in 1..Len(q)}
Occurrences(q, x) == Cardinality({j \in 1..Len(q) : q[j] = x})

\* check_streams was entered and has returned
CheckStreamsDone == i >= 1 /\ pc \notin {"loop", "await"}

\* C1: check_streams returns only after every probe it started has completed,
\* having probed every element of urls, and the map it returns has exactly
\* one entry for every distinct URL of urls, repeated URLs included.
C1_FullJoinOneEntryPerUrl ==
    CheckStreamsDone =>
        /\ inflight = {}
        /\ \A u \in URLs :
             /\ calls[u] = Occurrences(stream_urls, u)
             /\ stores[u] = calls[u]
        /\ DictKeys(health_results) = Range(stream_urls)
        /\ Len(health_results) = Cardinality(Range(stream_urls))

\* a returned check over a list that repeats a URL, holds two distinct URLs
\* and had a probe fail
C1_Witness ==
    /\ CheckStreamsDone
    /\ \E u \in URLs : Occurrences(stream_urls, u) >= 2
    /\ Cardinality(Range(stream_urls)) >= 2
    /\ \E j \in 1..Len(health_results) : ~health_results[j][2][1]

\* C2: whenever a probe is in flight, a probe has been dispatched for every
\* distinct URL of the input (all probes start before any has to complete).
C2_AllDispatchedWhileInFlight ==
    inflight # {} => \A u \in Range(stream_urls) : calls[u] >= 1

\* C3: each distinct URL is probed exactly once and its map entry is written
\* exactly once, also when the URL occurs in several candidates.
C3_ProbedAndWrittenOnce ==
    \A u \in URLs : calls[u] <= 1 /\ stores[u] <= 1

\* C4: every check_stream call returns an outcome, and an unhealthy outcome
\* carries a non-empty reason.
C4_UnhealthyHasReason ==
    /\ (pc = "loop" => \A u \in URLs : stores[u] = calls[u])
    /\ \A j \in 1..Len(results) :
         ~results[j][2][1] => results[j][2][2] # ""

NonSuccess(net) == net.kind = "response" /\ net.status \notin 200..299

\* C5: a probe answered with a non-success status is recorded unhealthy, and
\* no such stream appears in an emitted playlist.
C5_NonSuccessStatusUnhealthy ==
    \A u \in DictKeys(results) :
        NonSuccess(last_net[u]) =>
            /\ ~DictGet(results, u, NotChecked)[1]
            /\ u \notin Range(m3u_content)
            /\ \A j \in 1..Len(xspf_content) : xspf_content[j].location # u

\* the mp3 mounts with a true-status entry in hr, in station then mount order
HealthyIn(hr, url) == \E j \in 1..Len(hr) : hr[j][1] = url /\ hr[j][2][1]
HealthyMounts(sd, hr) ==
    SelectSeq(StationMounts(sd),
              LAMBDA e : e.mount.format = "mp3" /\ HealthyIn(hr, e.mount.url))

ExtinfLines(name) ==
    {"#EXTINF:-1," \o name \o suffix :
        suffix \in {"", " - 128kbps", " - Nonekbps"}}

\* C6: the M3U document is the header #EXTM3U followed by exactly one
\* (#EXTINF line, URL line) pair per healthy mp3 mount, in station then mount
\* order; other mounts contribute no line.
C6_M3UPairsOfHealthy ==
    "m3u" \in attempted =>
        LET H == HealthyMounts(station_data, health_results) IN
        /\ Len(m3u_content) = 1 + 2 * Len(H)
        /\ m3u_content[1] = "#EXTM3U"
        /\ \A k \in 1..Len(H) :
             /\ m3u_content[2 * k] \in ExtinfLines(H[k].name)
             /\ m3u_content[2 * k + 1] = H[k].mount.url

\* an M3U of two entries from two stations, with an mp3 mount left out for
\* want of a health entry
C6_Witness ==
    /\ pc = "encoded"
    /\ "m3u" \in attempted
    /\ Len(station_data) = 2
    /\ Len(HealthyMounts(station_data, health_results)) = 2
    /\ \E e \in Range(StationMounts(station_data)) :
         e.mount.format = "mp3" /\ e.mount.url \notin DictKeys(health_results)

\* C7: the PLS entries are numbered 1..k without gap or repeat, k the number
\* of healthy mp3 mounts, and the document ends with NumberOfEntries=k and
\* Version=2.
C7_PLSContiguousIndices ==
    "pls" \in attempted =>
        LET H == HealthyMounts(station_data, health_results)
            k == Len(H)
        IN
        /\ Len(pls_content) = 3 * k + 3
        /\ pls_content[1] = "[playlist]"
        /\ \A n \in 1..k :
             /\ pls_content[3 * n - 1] = "File" \o ToString(n) \o "=" \o H[n].mount.url
             /\ pls_content[3 * n] = "Title" \o ToString(n) \o "=" \o H[n].name
             /\ pls_content[3 * n + 1] = "Length" \o ToString(n) \o "=-1"
        /\ pls_content[3 * k + 2] = "NumberOfEntries=" \o ToString(k)
        /\ pls_content[3 * k + 3] = "Version=2"

\* a PLS of two entries with an unhealthy mp3 mount between them
C7_Witness ==
    /\ pc = "encoded"
    /\ "pls" \in attempted
    /\ LET ms == StationMounts(station_data) IN
       /\ Len(ms) = 3
       /\ \A j \in 1..3 : ms[j].mount.format = "mp3"
       /\ HealthyIn(health_results, ms[1].mount.url)
       /\ ms[2].mount.url \in DictKeys(health_results)
       /\ ~HealthyIn(health_results, ms[2].mount.url)
       /\ HealthyIn(health_results, ms[3].mount.url)

\* the health maps holding the items of d in any insertion order
Reorderings(d) == {p \in [1..Len(d) -> Range(d)] : Range(p) = Range(d)}

\* C8: the entries of every emitted playlist follow the station and mount
\* order; a health map with the same outcomes in another insertion order
\* gives the same document.
C8_OrderFromInputOnly ==
    pc = "encoded" =>
        LET H == HealthyMounts(station_data, health_results) IN
        /\ "xspf" \in attempted =>
             /\ [j \in 1..Len(xspf_content) |-> xspf_content[j].location]
                  = [j \in 1..Len(H) |-> H[j].mount.url]
             /\ \A p \in Reorderings(health_results) :
                  create_xspf_playlist(station_data, p) = xspf_content
        /\ "m3u" \in attempted =>
             /\ SelectSeq(m3u_content, LAMBDA l : l \in URLs)
                  = [j \in 1..Len(H) |-> H[j].mount.url]
             /\ \A p \in Reorderings(health_results) :
                  create_m3u_playlist(station_data, p) = m3u_content
        /\ "pls" \in attempted =>
             \A p \in Reorderings(health_results) :
                  create_pls_playlist(station_data, p) = pls_content

\* two healthy URLs entered in the map in the order opposite to the one in
\* which their mounts occur, both emitted
C8_Witness ==
    /\ pc = "encoded"
    /\ "xspf" \in attempted
    /\ Len(health_results) = 2
    /\ Len(xspf_content) = 2
    /\ xspf_content[1].location = health_results[2][1]
    /\ xspf_content[2].location = health_results[1][1]

\* a health map in which every URL of urls is healthy
RECURSIVE AllHealthyLoop(_, _)
AllHealthyLoop(urls, acc) ==
    IF urls = <<>> THEN acc
    ELSE AllHealthyLoop(Tail(urls),
             IF Head(urls) \in DictKeys(acc) THEN acc
             ELSE Append(acc, <<Head(urls), <<TRUE, "200">>>>))

EveryProbeHealthy ==
    /\ ~args.no_health_check
    /\ CheckStreamsDone
    /\ \A j \in 1..Len(health_results) : health_results[j][2][1]

\* C9: with health checking disabled no probe is started, every mp3 stream
\* URL is mapped to a healthy outcome, and each encoder produces the entries
\* it produces in a run where every probe reports healthy.
C9_DisabledEqualsAllHealthy ==
    LET ref == AllHealthyLoop(stream_urls, <<>>) IN
    /\ args.no_health_check =>
         /\ inflight = {}
         /\ \A u \in URLs : calls[u] = 0
         /\ pc \in {"xspf", "m3u", "pls", "summary"} =>
              \A u \in Range(stream_urls) : HealthyIn(health_results, u)
    /\ (args.no_health_check \/ EveryProbeHealthy) =>
         /\ "xspf" \in attempted =>
              xspf_content = create_xspf_playlist(station_data, ref)
         /\ "m3u" \in attempted =>
              m3u_content = create_m3u_playlist(station_data, ref)
         /\ "pls" \in attempted =>
              pls_content = create_pls_playlist(station_data, ref)

\* a finished run without health checks that wrote all three playlists, each
\* with two entries or more
C9_Witness ==
    /\ args.no_health_check
    /\ pc = "done"
    /\ exit_code = 0
    /\ attempted = {"xspf", "m3u", "pls"}
    /\ Len(xspf_content) >= 2
    /\ Cardinality(Range(stream_urls)) = 2

\* C10: when the run ends after a format was attempted, every requested
\* format has been attempted (a failure of one format does not stop the
\* others).
C10_EveryRequestedFormatAttempted ==
    (pc = "done" /\ attempted # {}) => Requested(args) \subseteq attempted

\* C11: the #EXTINF line of a healthy mount ends with " - <bitrate>kbps" if
\* and only if the mount's bitrate is known; a mount whose bitrate is absent
\* or null gets "#EXTINF:-1,<station name>" with no suffix.
C11_SuffixIffBitrateKnown ==
    "m3u" \in attempted =>
        LET H == HealthyMounts(station_data, health_results) IN
        /\ Len(m3u_content) = 1 + 2 * Len(H)
        /\ \A k \in 1..Len(H) :
             m3u_content[2 * k] =
                 IF H[k].mount.bitrate \in {"absent", "null"}
                 THEN "#EXTINF:-1," \o H[k].name
                 ELSE "#EXTINF:-1," \o H[k].name \o " - "
                          \o H[k].mount.bitrate \o "kbps"
====
